---- MODULE Spec2Model ----
(***************************************************************************)
(* State-machine model of the task scheduler of the Reels auto-poster:     *)
(* ReelsAutoPilot (src/src/app.py) and its diagnostic twin                 *)
(* DebugReelsAutoPilot (src/src/debug_app.py), together with the           *)
(* configuration reload (helpers.load_all_config) and the session          *)
(* acquisition (auth.login) they depend on.                                *)
(*                                                                         *)
(* Time is counted in seconds.  The clock `now` is what datetime.now()     *)
(* returns; it advances only while the process sleeps or while an external *)
(* call (a task body, auth.login) is in progress.                          *)
(***************************************************************************)
EXTENDS Integers, Sequences, FiniteSets, TLC

\* ------------------------------------------------------------------ bounds
\* The main loop performs at most MaxTicks iterations.
MaxTicks == 4
\* Every external call made in the loop (a task body, a login) takes the same
\* time, between 0 and MaxDur seconds; the login at startup may also take whole
\* minutes (a challenge or a two-factor prompt that waits for the operator).
MaxDur == 1
\* The operator edits the configuration store at most MaxEdits times.
MaxEdits == 1
\* Interval settings in the store range over 1..MaxInterval minutes.
MaxInterval == 2
\* The tick raises an error outside the task wrappers at most MaxLoopErrors times.
MaxLoopErrors == 1

\* How many reel codes the Instagram feed offers, how many calls of the scraper's
\* and the poster's bodies are followed, and how many calls of login().
MaxReels == 2
MaxCalls == 4
MaxLoginCalls == 3

\* ------------------------------------------------------- program constants
max_consecutive_errors == 5
CooldownSecs == 60
TickSleepSecs == 1
ErrorSleepSecs == 5
JitterMin == 5
JitterMax == 20
StatusIntervalProd == 300
StatusIntervalDev == 60
DevScraperInterval == 5
DevPosterInterval == 2
DevRemoverInterval == 10
DevYoutubeInterval == 15
SecondsPerMinute == 60

Tasks == {"Scrape", "Post", "Cleanup", "Youtube"}

\* The four enabled-flag keys and the four interval keys of the Config table.
FlagKey ==
  [Scrape |-> "IS_ENABLED_REELS_SCRAPER", Post |-> "IS_ENABLED_AUTO_POSTER",
   Cleanup |-> "IS_REMOVE_FILES", Youtube |-> "IS_ENABLED_YOUTUBE_SCRAPING"]

IntervalKey ==
  [Scrape |-> "SCRAPER_INTERVAL_IN_MIN", Post |-> "POSTING_INTERVAL_IN_MIN",
   Cleanup |-> "REMOVE_FILE_AFTER_MINS", Youtube |-> "YOUTUBE_SCRAPING_INTERVAL_IN_MINS"]

FlagKeys == {FlagKey[t] : t \in Tasks}
IntervalKeys == {IntervalKey[t] : t \in Tasks}
ConfigKeys == FlagKeys \cup IntervalKeys

\* --------------------------------------------- configuration values (text)
\* The store holds text.  Decimal holds the texts int() accepts, by value.
Decimal == <<"1", "2", "3", "4", "5", "6", "7", "8", "9">>

IsIntString(s) == s = "0" \/ \E n \in 1..Len(Decimal) : Decimal[n] = s

IntOf(s) == IF s = "0" THEN 0 ELSE CHOOSE n \in 1..Len(Decimal) : Decimal[n] = s

StrOf(n) == IF n = 0 THEN "0" ELSE Decimal[n]

\* Texts an operator may store in an enabled flag: "on" is one int() rejects.
DbFlagValues == {"0", "1", "on"}
DbIntervalValues == {StrOf(n) : n \in 1..MaxInterval}

\* A value of the in-process config object: an int or a str.
IntVal(n) == [type |-> "int", val |-> n, text |-> ""]
StrVal(s) == [type |-> "str", val |-> 0, text |-> s]

\* helpers.load_all_config, numeric keys: int(value), the text itself on ValueError.
LoadValue(s) == IF IsIntString(s) THEN IntVal(IntOf(s)) ELSE StrVal(s)

load_all_config(store) == [k \in ConfigKeys |-> LoadValue(store[k])]

\* ReelsAutoPilot._is_enabled on a config value (no text of the model carries
\* surrounding blanks, so strip() leaves it as it is).
is_enabled(value) ==
  IF value.type = "str" THEN value.text = "1" ELSE value.val = 1

\* int(getattr(config, key)) for an interval key.
IntervalOf(cfg, t) == cfg[IntervalKey[t]].val

Minutes(m) == m * SecondsPerMinute

VARIABLES
  variant,             \* "app": ReelsAutoPilot, "debug": DebugReelsAutoPilot
  db,                  \* the Config table of the external store: key -> text
  config,              \* the process-wide config object: key -> value
  edits,               \* number of operator edits of the store so far
  loopErrors,          \* number of errors raised in the tick outside the wrappers
  callSecs,            \* how long an external call made in the loop takes
  loop_count,          \* ReelsAutoPilot.run(): loop_count
  dev_mode,            \* ReelsAutoPilot.dev_mode
  api,                 \* TRUE iff self.api holds a client
  is_running,          \* self.is_running
  interval,            \* self.scraper_interval .. self.youtube_interval, minutes
  next_run,            \* self.next_reels_scraper_run .. self.next_youtube_run
  last_status_print,   \* self.last_status_print
  last_activity,       \* self.last_activity
  consecutive_errors,  \* self.consecutive_errors
  now,                 \* the wall clock
  current_time,        \* run(): current_time of the tick
  tasks_executed,      \* run(): tasks_executed of the tick
  iteration_count,     \* DebugReelsAutoPilot.iteration_count
  conditions,          \* DebugReelsAutoPilot.run(): conditions of the tick
  pc,                  \* where the process is
  ret,                 \* where handle_error returns to
  tickLog,             \* history: the task bodies started in this tick, in order
  seenOff,             \* history: the tasks this tick's evaluation found disabled
  tickDue,             \* history: next_run as it was when this tick began
  tickLogins,          \* history: the calls of auth.login made in this tick
                       \* (before the first tick: at startup)
  storeOff,            \* history: the tasks whose flag in the store was off when this tick began
  signalled,           \* history: a KeyboardInterrupt has been raised
  lastRun              \* history: the latest call of a run_* wrapper or of handle_error

\* The reels table and the download directory, used by the bodies of Scrape and Post.
VARIABLES
  reel_table,          \* the rows of table "reels", in insertion order
  files,               \* codes whose downloaded file is on disk with at least 10000 bytes
  uploads,             \* history: code -> number of clip_upload calls that returned a media
  failed_marks,        \* history: codes for which _mark_as_failed was called
  calls,               \* number of calls of download_and_save_reel and ReelsPoster.run so far
  lastPost,            \* history: the latest call of ReelsPoster.run
  lastSave             \* history: the latest call of download_and_save_reel

\* InstagramAuthenticator.login
VARIABLES
  session_file,        \* TRUE iff session.json exists
  attempt,             \* the loop variable of login()
  login_pc,            \* "idle", "loop" (inside the for loop), "returned"
  login_result,        \* what login() returned: "none" yet, "client", "None"
  login_calls,         \* number of calls of login() so far
  login_log            \* history: what each attempt of the current call did

orchestrator ==
  <<variant, db, config, edits, loopErrors, callSecs, loop_count, dev_mode, api,
    is_running, interval, next_run, last_status_print, last_activity, consecutive_errors, now, current_time,
    tasks_executed, iteration_count, conditions, pc, ret, tickLog, seenOff,
    tickDue, tickLogins, storeOff, signalled, lastRun>>

library == <<reel_table, files, uploads, failed_marks, calls, lastPost, lastSave>>

authenticator ==
  <<session_file, attempt, login_pc, login_result, login_calls, login_log>>

vars == <<orchestrator, library, authenticator>>

Codes == 1..MaxReels

\* No reel: what get_next_reel returns when there is none, a feed item without code.
NoCode == 0

NoPost == [selected |-> NoCode, result |-> "none", valid |-> FALSE,
           failedBefore |-> FALSE, waiting |-> {}, uploadsBefore |-> 0, call |-> 0]

NoSave == [code |-> NoCode, copiesBefore |-> 0, downloaded |-> FALSE,
           returned |-> FALSE, rowsBefore |-> 0, call |-> 0]

\* A fresh installation: an empty table, an empty download directory.
EmptyLibrary ==
  /\ reel_table = <<>>
  /\ files = {}
  /\ uploads = [c \in Codes |-> 0]
  /\ failed_marks = {}
  /\ calls = 0
  /\ lastPost = NoPost
  /\ lastSave = NoSave

\* No session.json yet, login() not called.
NoLoginYet ==
  /\ session_file = FALSE
  /\ attempt = 0
  /\ login_pc = "idle"
  /\ login_result = "none"
  /\ login_calls = 0
  /\ login_log = <<>>

next_reels_scraper_run == next_run["Scrape"]
next_poster_run == next_run["Post"]
next_remover_run == next_run["Cleanup"]
next_youtube_run == next_run["Youtube"]

status_interval_of_production == StatusIntervalProd

\* __init__: `self.status_interval = 300 if not dev_mode else 60`.
status_interval == IF dev_mode THEN StatusIntervalDev ELSE StatusIntervalProd

requiresSession(t) == t \in {"Scrape", "Post"}

NoRun ==
  [task |-> "none", outcome |-> "none", start |-> 0, finish |-> 0,
   errBefore |-> 0, dueBefore |-> 0, apiBefore |-> FALSE,
   invalidations |-> 0, inits |-> 0, logins |-> 0, jitter |-> 0,
   result |-> "none"]

Chk == [Scrape |-> "chkScrape", Post |-> "chkPost", Cleanup |-> "chkRemove", Youtube |-> "chkYoutube"]
Body == [Scrape |-> "inScrape", Post |-> "inPost", Cleanup |-> "inRemove", Youtube |-> "inYoutube"]
AfterCleanupFirst == [Scrape |-> "chkRemove", Cleanup |-> "chkPost", Post |-> "chkYoutube", Youtube |-> "heartbeat"]
After == [Scrape |-> "chkPost", Post |-> "chkRemove", Cleanup |-> "chkYoutube", Youtube |-> "heartbeat"]

Activity ==
  [Scrape |-> "Scraping reels", Post |-> "Posting reel",
   Cleanup |-> "Removing files", Youtube |-> "Scraping YouTube"]

\* ReelsAutoPilot.__init__: the staggered first due times, minutes after construction.
Stagger == [Scrape |-> 0, Post |-> 1, Cleanup |-> 2, Youtube |-> 3]

DevInterval ==
  [Scrape |-> DevScraperInterval, Post |-> DevPosterInterval,
   Cleanup |-> DevRemoverInterval, Youtube |-> DevYoutubeInterval]

\* DebugReelsAutoPilot: str(config.X) == "1".
debug_enabled(value) ==
  IF value.type = "str" THEN value.text = "1" ELSE StrOf(value.val) = "1"

NeedsInstagramAlways == TRUE

\* initialize_instagram: is a client needed at all.
NeedsInstagram ==
  IF variant = "app"
  THEN is_enabled(config[FlagKey["Scrape"]]) \/ is_enabled(config[FlagKey["Post"]])
  ELSE debug_enabled(config[FlagKey["Scrape"]]) \/ debug_enabled(config[FlagKey["Post"]])

\* The enabled flags the store holds at construction: all four tasks enabled,
\* only Cleanup and Youtube enabled, only Scrape enabled.
InitFlags ==
  { [t \in Tasks |-> "1"],
    [t \in Tasks |-> IF requiresSession(t) THEN "0" ELSE "1"],
    [t \in Tasks |-> IF t = "Scrape" THEN "1" ELSE "0"] }

\* The interval settings the store holds at construction, from one of them.
InitIntervals(a) ==
  [t \in Tasks |-> IF t \in {"Scrape", "Cleanup"} THEN a ELSE 1 + (a % MaxInterval)]

\* The state after construction (__init__ of either orchestrator), the clock at 0.
Init ==
  \E v \in {"app", "debug"}, dm \in BOOLEAN, flags \in InitFlags,
     a \in 1..MaxInterval, d \in 0..MaxDur :
    /\ (v = "debug" => ~dm)
    /\ variant = v
    /\ dev_mode = dm
    /\ db = [k \in ConfigKeys |->
               IF k \in FlagKeys THEN flags[CHOOSE t \in Tasks : FlagKey[t] = k]
               ELSE StrOf(InitIntervals(a)[CHOOSE t \in Tasks : IntervalKey[t] = k])]
    /\ config = load_all_config(db)
    /\ edits = 0
    /\ loopErrors = 0
    /\ loop_count = 0
    /\ callSecs = d
    /\ api = FALSE
    /\ is_running = TRUE
    /\ interval = IF dm THEN DevInterval ELSE [t \in Tasks |-> IntervalOf(config, t)]
    /\ now = 0
    /\ next_run = IF v = "app" THEN [t \in Tasks |-> Minutes(Stagger[t])]
                  ELSE [t \in Tasks |-> 0]
    /\ last_status_print = 0
    /\ last_activity = "Application started"
    /\ consecutive_errors = 0
    /\ current_time = 0
    /\ tasks_executed = 0
    /\ iteration_count = 0
    /\ conditions = [t \in Tasks |-> FALSE]
    /\ pc = "start"
    /\ ret = "none"
    /\ tickLog = <<>>
    /\ seenOff = {}
    /\ tickDue = next_run
    /\ tickLogins = 0
    /\ storeOff = {}
    /\ signalled = FALSE
    /\ lastRun = NoRun
    /\ EmptyLibrary
    /\ NoLoginYet

\* ---------------------------------------------------------------- startup
\* How long the login at startup may take: as long as any external call, or
\* until the last of the staggered due times.
LoginSecs == {callSecs, Minutes(Stagger["Youtube"])}

\* A login at startup that waits for the operator (a challenge, the two-factor
\* prompt) until one tick before the first status print of production mode is due.
LoginWaitSecs == {StatusIntervalProd - TickSleepSecs}

CallsLoginWheneverNeeded(held) == NeedsInstagram

\* initialize_instagram: auth.login is called when a client is needed
\* (`if enabled(...) or enabled(...)`) and none is held (`if not self.api`).
CallsLogin(held) == NeedsInstagram /\ ~held

\* run(), before the loop: initialize_instagram, return when it fails.
\* auth.login reloads the configuration and returns a client or None after a
\* time taken from secs.
Startup(secs) ==
  /\ pc = "start"
  /\ IF CallsLogin(api)
     THEN \E ok \in BOOLEAN, d \in secs :
            /\ config' = load_all_config(db)
            /\ api' = ok
            /\ now' = now + d
            /\ tickLogins' = tickLogins + 1
            /\ pc' = IF ok THEN "loop" ELSE "failed"
     ELSE /\ pc' = "loop"
          /\ UNCHANGED <<config, api, now, tickLogins>>
  /\ UNCHANGED <<library, authenticator, variant, db, edits, loopErrors, callSecs, loop_count, dev_mode, is_running, interval, next_run,
                 last_status_print, last_activity, consecutive_errors, current_time,
                 tasks_executed, iteration_count, conditions, ret, tickLog, lastRun, seenOff, tickDue,
                 storeOff, signalled>>

\* The start of run() with a login of ordinary length.
RunStart == Startup(LoginSecs)

\* The start of run() with a login that waits for the operator.
RunStartWaiting == CallsLogin(api) /\ Startup(LoginWaitSecs)

\* ------------------------------------------------------------ top of a tick
\* History: the flag of task t as the store holds it, read the way the
\* orchestrator at work would read it after a reload.
StoreEnabled(t) ==
  IF variant = "app" THEN is_enabled(LoadValue(db[FlagKey[t]]))
  ELSE debug_enabled(LoadValue(db[FlagKey[t]]))

\* ReelsAutoPilot.run: `while self.is_running`, then current_time and tasks_executed.
LoopTop ==
  /\ variant = "app" /\ pc = "loop"
  /\ IF is_running
     THEN /\ loop_count < MaxTicks
          /\ loop_count' = loop_count + 1
          /\ current_time' = now
          /\ tasks_executed' = 0
          /\ tickLog' = <<>>
          /\ seenOff' = {}
          /\ tickDue' = next_run
          /\ tickLogins' = 0
          /\ storeOff' = {t \in Tasks : ~StoreEnabled(t)}
          /\ lastRun' = NoRun
          /\ pc' = "chkScrape"
     ELSE /\ pc' = "stopped"
          /\ UNCHANGED <<loop_count, current_time, tasks_executed, tickLog, seenOff,
                         tickDue, tickLogins, storeOff, lastRun>>
  /\ UNCHANGED <<library, authenticator, variant, db, config, edits, loopErrors, callSecs, dev_mode, api,
                 is_running, interval, next_run, last_status_print, last_activity,
                 consecutive_errors, now, iteration_count, conditions, ret,
                 signalled>>

max_iterations == 10

\* DebugReelsAutoPilot.check_conditions: the four conditions, against its own now.
check_conditions ==
  [t \in Tasks |-> debug_enabled(config[FlagKey[t]]) /\ now >= next_run[t]]

\* DebugReelsAutoPilot.run: the loop condition, iteration_count, check_conditions.
DebugLoopTop ==
  /\ variant = "debug" /\ pc = "loop"
  /\ IF is_running /\ iteration_count < max_iterations
     THEN /\ iteration_count < MaxTicks
          /\ iteration_count' = iteration_count + 1
          /\ conditions' = check_conditions
          /\ current_time' = now
          /\ tickLog' = <<>>
          /\ seenOff' = {t \in Tasks : ~debug_enabled(config[FlagKey[t]])}
          /\ tickDue' = next_run
          /\ tickLogins' = 0
          /\ storeOff' = {t \in Tasks : ~StoreEnabled(t)}
          /\ lastRun' = NoRun
          /\ pc' = "chkScrape"
     ELSE /\ pc' = "stopped"
          /\ UNCHANGED <<iteration_count, conditions, current_time, tickLog, seenOff,
                         tickDue, tickLogins, storeOff, lastRun>>
  /\ UNCHANGED <<library, authenticator, variant, db, config, edits, loopErrors, callSecs, loop_count, dev_mode, api, is_running, interval,
                 next_run, last_status_print, last_activity, consecutive_errors, now,
                 tasks_executed, ret,
                 signalled>>

\* ------------------------------------------------------- dispatch of a task
DueByTimeOnly(t) ==
  IF variant = "app" THEN current_time >= next_run[t] ELSE now >= next_run[t]

DueOnClock(t) ==
  IF variant = "app"
  THEN is_enabled(config[FlagKey[t]]) /\ now >= next_run[t]
  ELSE conditions[t]

\* The `if` that guards task t in the tick: ReelsAutoPilot compares the
\* current_time read at the top of the tick, DebugReelsAutoPilot uses what
\* check_conditions found at the top of the tick.
Due(t) ==
  IF variant = "app"
  THEN is_enabled(config[FlagKey[t]]) /\ current_time >= next_run[t]
  ELSE conditions[t]

\* History: ReelsAutoPilot.run reads the flag of task t when its `if` is reached
\* (DebugReelsAutoPilot has read all four in check_conditions).
Evaluated(t) ==
  IF variant = "app" /\ ~is_enabled(config[FlagKey[t]])
  THEN seenOff \cup {t}
  ELSE seenOff

\* The `if` of task t is not taken.
NotDue(t) ==
  /\ pc = Chk[t]
  /\ ~Due(t)
  /\ seenOff' = Evaluated(t)
  /\ pc' = After[t]
  /\ UNCHANGED <<library, authenticator, variant, db, config, edits, loopErrors, callSecs, loop_count, dev_mode, api, is_running, interval,
                 next_run, last_status_print, last_activity, consecutive_errors, now,
                 current_time, tasks_executed, iteration_count, conditions, ret,
                 tickLog, lastRun, tickDue, tickLogins,
                 storeOff, signalled>>

\* The record of a wrapper call that begins now.
RunOf(t) ==
  [NoRun EXCEPT !.task = t, !.start = now, !.finish = now,
                !.errBefore = consecutive_errors, !.dueBefore = next_run[t],
                !.apiBefore = api]

NoClientCounted(t) ==
  /\ pc = Chk[t]
  /\ Due(t)
  /\ requiresSession(t) /\ ~api
  /\ last_activity' = IF variant = "app" THEN Activity[t] ELSE last_activity
  /\ tasks_executed' = IF variant = "app" THEN tasks_executed + 1 ELSE tasks_executed
  /\ lastRun' = [RunOf(t) EXCEPT !.outcome = "skip"]
  /\ seenOff' = Evaluated(t)
  /\ consecutive_errors' = IF consecutive_errors + 1 < max_consecutive_errors
                           THEN consecutive_errors + 1 ELSE 0
  /\ pc' = After[t]
  /\ UNCHANGED <<library, authenticator, variant, db, config, edits, loopErrors, callSecs, loop_count, dev_mode, api, is_running, interval,
                 next_run, last_status_print, now, current_time,
                 iteration_count, conditions, ret, tickLog, tickDue, tickLogins,
                 storeOff, signalled>>

\* run_reels_scraper / run_poster with no client: `if not self.api: return`.
NoClient(t) ==
  /\ pc = Chk[t]
  /\ Due(t)
  /\ requiresSession(t) /\ ~api
  /\ last_activity' = IF variant = "app" THEN Activity[t] ELSE last_activity
  /\ tasks_executed' = IF variant = "app" THEN tasks_executed + 1 ELSE tasks_executed
  /\ lastRun' = [RunOf(t) EXCEPT !.outcome = "skip"]
  /\ seenOff' = Evaluated(t)
  /\ pc' = After[t]
  /\ UNCHANGED <<library, authenticator, variant, db, config, edits, loopErrors, callSecs, loop_count, dev_mode, api, is_running, interval,
                 next_run, last_status_print, consecutive_errors, now, current_time,
                 iteration_count, conditions, ret, tickLog, tickDue, tickLogins,
                 storeOff, signalled>>

BeginBodyDetached(t) ==
  /\ pc = Chk[t]
  /\ Due(t)
  /\ requiresSession(t) => api
  /\ last_activity' = IF variant = "app" THEN Activity[t] ELSE last_activity
  /\ \E reload \in BOOLEAN :
       /\ t # "Cleanup" => reload
       /\ config' = IF reload THEN load_all_config(db) ELSE config
  /\ tickLog' = Append(tickLog, t)
  /\ lastRun' = [RunOf(t) EXCEPT !.outcome = "running"]
  /\ seenOff' = Evaluated(t)
  /\ pc' = After[t]
  /\ UNCHANGED <<library, authenticator, variant, db, edits, loopErrors, callSecs, loop_count, dev_mode, api, is_running, interval, next_run,
                 last_status_print, consecutive_errors, now, current_time,
                 tasks_executed, iteration_count, conditions, ret, tickDue, tickLogins,
                 storeOff, signalled>>

\* The wrapper of task t calls the task body, a plain call on the loop's own
\* thread: the loop is inside the body until it returns.  reels.main, poster.main and
\* shorts.main begin with load_all_config; the source of remover.main is not part
\* of the repository, so it may or may not reload.
BeginBody(t) ==
  /\ pc = Chk[t]
  /\ Due(t)
  /\ requiresSession(t) => api
  /\ last_activity' = IF variant = "app" THEN Activity[t] ELSE last_activity
  /\ \E reload \in BOOLEAN :
       /\ t # "Cleanup" => reload
       /\ config' = IF reload THEN load_all_config(db) ELSE config
  /\ tickLog' = Append(tickLog, t)
  /\ lastRun' = [RunOf(t) EXCEPT !.outcome = "running"]
  /\ seenOff' = Evaluated(t)
  /\ pc' = Body[t]
  /\ UNCHANGED <<library, authenticator, variant, db, edits, loopErrors, callSecs, loop_count, dev_mode, api, is_running, interval, next_run,
                 last_status_print, consecutive_errors, now, current_time,
                 tasks_executed, iteration_count, conditions, ret, tickDue, tickLogins,
                 storeOff, signalled>>

\* ------------------------------------------------------------ handle_error
IncrementedTwice == consecutive_errors + 2

\* handle_error: `self.consecutive_errors += 1`.
Incremented == consecutive_errors + 1

AboveCeiling(n) == n > max_consecutive_errors

\* handle_error: `if self.consecutive_errors >= self.max_consecutive_errors`.
AtCeiling(n) == n >= max_consecutive_errors

\* ReelsAutoPilot.handle_error, called when the process would continue at r;
\* run is the history record of the call.  At the ceiling the client is dropped
\* (`self.api = None`) and initialize_instagram is called: auth.login is entered
\* only when Scrape or Post is enabled; the counter is zeroed when
\* initialize_instagram returns.
handle_error(r, run) ==
  LET n == Incremented IN
  IF AtCeiling(n)
  THEN /\ api' = FALSE
       /\ ret' = r
       /\ tasks_executed' = tasks_executed
       /\ IF CallsLogin(FALSE)
          THEN /\ consecutive_errors' = n
               /\ config' = load_all_config(db)
               /\ pc' = "login"
               /\ tickLogins' = tickLogins + 1
               /\ lastRun' = [run EXCEPT !.invalidations = @ + 1, !.inits = @ + 1,
                                         !.logins = @ + 1]
          ELSE /\ consecutive_errors' = 0
               /\ config' = config
               /\ pc' = "cooldown"
               /\ tickLogins' = tickLogins
               /\ lastRun' = [run EXCEPT !.invalidations = @ + 1, !.inits = @ + 1]
  ELSE /\ consecutive_errors' = n
       /\ pc' = r
       /\ tasks_executed' = IF r = "errsleep" THEN tasks_executed ELSE tasks_executed + 1
       /\ lastRun' = run
       /\ UNCHANGED <<api, config, ret, tickLogins>>

LoginReturnKeepsCount ==
  /\ pc = "login"
  /\ \E ok \in BOOLEAN : api' = ok
  /\ now' = now + callSecs
  /\ consecutive_errors' = consecutive_errors
  /\ pc' = "cooldown"
  /\ UNCHANGED <<library, authenticator, variant, db, config, edits, loopErrors, callSecs, loop_count, dev_mode, is_running, interval, next_run,
                 last_status_print, last_activity, current_time, tasks_executed,
                 iteration_count, conditions, ret, tickLog, lastRun, seenOff, tickDue, tickLogins,
                 storeOff, signalled>>

LoginReturnFailureStops ==
  /\ pc = "login"
  /\ \E ok \in BOOLEAN : api' = ok /\ is_running' = ok
  /\ now' = now + callSecs
  /\ consecutive_errors' = 0
  /\ pc' = "cooldown"
  /\ UNCHANGED <<library, authenticator, variant, db, config, edits, loopErrors, callSecs, loop_count, dev_mode, interval, next_run,
                 last_status_print, last_activity, current_time, tasks_executed,
                 iteration_count, conditions, ret, tickLog, lastRun, seenOff, tickDue, tickLogins,
                 storeOff, signalled>>

\* handle_error: auth.login returns; the result of initialize_instagram is not
\* looked at; `self.consecutive_errors = 0`.
LoginReturn ==
  /\ pc = "login"
  /\ \E ok \in BOOLEAN : api' = ok
  /\ now' = now + callSecs
  /\ consecutive_errors' = 0
  /\ pc' = "cooldown"
  /\ UNCHANGED <<library, authenticator, variant, db, config, edits, loopErrors, callSecs, loop_count, dev_mode, is_running, interval, next_run,
                 last_status_print, last_activity, current_time, tasks_executed,
                 iteration_count, conditions, ret, tickLog, lastRun, seenOff, tickDue, tickLogins,
                 storeOff, signalled>>

CooldownSkipped ==
  /\ pc = "cooldown"
  /\ now' = now
  /\ pc' = ret
  /\ ret' = "none"
  /\ tasks_executed' = IF ret = "errsleep" THEN tasks_executed ELSE tasks_executed + 1
  /\ UNCHANGED <<library, authenticator, variant, db, config, edits, loopErrors, callSecs, loop_count, dev_mode, api, is_running, interval,
                 next_run, last_status_print, last_activity, consecutive_errors,
                 current_time, iteration_count, conditions, tickLog, lastRun, seenOff, tickDue, tickLogins,
                 storeOff, signalled>>

\* handle_error: time.sleep(60), then back to the caller (which counts the task).
Cooldown ==
  /\ pc = "cooldown"
  /\ now' = now + CooldownSecs
  /\ pc' = ret
  /\ ret' = "none"
  /\ tasks_executed' = IF ret = "errsleep" THEN tasks_executed ELSE tasks_executed + 1
  /\ UNCHANGED <<library, authenticator, variant, db, config, edits, loopErrors, callSecs, loop_count, dev_mode, api, is_running, interval,
                 next_run, last_status_print, last_activity, consecutive_errors,
                 current_time, iteration_count, conditions, tickLog, lastRun, seenOff, tickDue, tickLogins,
                 storeOff, signalled>>

\* ------------------------------------------------- return of a task wrapper
\* The interval, in minutes, a wrapper reschedules its task with: the value
\* fixed by ReelsAutoPilot.__init__, or (DebugReelsAutoPilot) the configuration
\* read at that moment, where run_youtube_scraper reads SCRAPER_INTERVAL_IN_MIN.
RescheduleInterval(t) ==
  IF variant = "app" THEN interval[t]
  ELSE IntervalOf(config, IF t = "Youtube" THEN "Scrape" ELSE t)

JittersEveryTask(t) == {JitterMin, JitterMax}

\* random.randint(5, 20) of ReelsAutoPilot.run_poster, at its two extremes; no
\* other wrapper adds any.
Jitters(t) ==
  IF variant = "app" /\ t = "Post" THEN {JitterMin, JitterMax} ELSE {0}

NextDueIntervalEarlier(t, finish, j) == finish - Minutes(RescheduleInterval(t)) - j

NextDueFromStart(t, finish, j) == lastRun.start + Minutes(RescheduleInterval(t)) + j

\* `datetime.now() + timedelta(minutes=..., seconds=...)`, evaluated after the body.
NextDue(t, finish, j) == finish + Minutes(RescheduleInterval(t)) + j

UsesBudgetAnyTask(t) == variant = "app"

\* The wrappers that reset the counter on success and call handle_error on failure.
UsesBudget(t) == variant = "app" /\ requiresSession(t)

OnSuccessKeepsCount(t) == consecutive_errors

\* The counter after a successful body.
OnSuccess(t) == IF UsesBudget(t) THEN 0 ELSE consecutive_errors

\* tasks_executed after the wrapper returns to ReelsAutoPilot.run.
Counted == IF variant = "app" THEN tasks_executed + 1 ELSE tasks_executed

OnFailureLeavesTick(t) == "heartbeat"

\* Where run() continues once the wrapper of task t has caught the error of its
\* body: at the statement after the call, as after a success.
OnFailure(t) == After[t]

\* How a call of a task body can end.  poster.main: a reel was uploaded, the
\* upload did not succeed (post_reel returned False), there was no unposted
\* reel, or an exception left it; the other bodies: returned, or an exception
\* left them.
BodyResults(t) ==
  IF t = "Post" THEN {"posted", "upload_failed", "no_reel", "raised"}
  ELSE {"returned", "raised"}

EscapesOnFailedUpload(res) == res \in {"raised", "upload_failed"}

\* Whether the call of the body ends with an exception in the wrapper.
\* ReelsPoster.post_reel catches every Exception and returns False, and
\* ReelsPoster.run only logs that result, so a failed upload returns normally.
Escapes(res) == res = "raised"

\* The body of task t returns or raises after d seconds; the rest of the wrapper.
WrapperReturn(t) ==
  /\ pc = Body[t]
  /\ \E res \in BodyResults(t), j \in Jitters(t) :
       LET ok == ~Escapes(res)
           finish == now + callSecs
           run == [lastRun EXCEPT !.outcome = IF ok THEN "ok" ELSE "fail",
                                  !.finish = finish,
                                  !.jitter = IF ok THEN j ELSE 0,
                                  !.result = res]
       IN
       /\ now' = finish
       /\ IF ok
          THEN /\ next_run' = [next_run EXCEPT ![t] = NextDue(t, finish, j)]
               /\ consecutive_errors' = OnSuccess(t)
               /\ tasks_executed' = Counted
               /\ pc' = After[t]
               /\ lastRun' = run
               /\ UNCHANGED <<api, config, ret, tickLogins>>
          ELSE /\ next_run' = next_run
               /\ IF UsesBudget(t)
                  THEN handle_error(OnFailure(t), run)
                  ELSE /\ tasks_executed' = Counted
                       /\ pc' = OnFailure(t)
                       /\ lastRun' = run
                       /\ UNCHANGED <<consecutive_errors, api, config, ret, tickLogins>>
  /\ UNCHANGED <<library, authenticator, variant, db, edits, loopErrors, callSecs, loop_count, dev_mode,
                 is_running, interval, last_status_print, last_activity, current_time,
                 iteration_count, conditions, tickLog, seenOff, tickDue,
                 storeOff, signalled>>

run_reels_scraper == WrapperReturn("Scrape")

run_poster == WrapperReturn("Post")

run_remover == WrapperReturn("Cleanup")

run_youtube_scraper == WrapperReturn("Youtube")

\* ------------------------------------------------------- the end of a tick
HeartbeatResetsBudget ==
  /\ variant = "app" /\ pc = "heartbeat"
  /\ IF current_time - last_status_print >= status_interval
     THEN /\ last_activity' = IF tasks_executed = 0
                              THEN "Waiting for next scheduled task"
                              ELSE last_activity
          /\ last_status_print' = current_time
          /\ consecutive_errors' = 0
     ELSE UNCHANGED <<last_activity, last_status_print, consecutive_errors>>
  /\ pc' = "sleep"
  /\ UNCHANGED <<library, authenticator, variant, db, config, edits, loopErrors, callSecs, loop_count, dev_mode, api, is_running, interval,
                 next_run, now, current_time, tasks_executed,
                 iteration_count, conditions, ret, tickLog, lastRun, seenOff, tickDue, tickLogins,
                 storeOff, signalled>>

\* ReelsAutoPilot.run: the periodic status print.  print_heartbeat reads the
\* counter, the due times and the flags and writes log lines only.
Heartbeat ==
  /\ variant = "app" /\ pc = "heartbeat"
  /\ IF current_time - last_status_print >= status_interval
     THEN /\ last_activity' = IF tasks_executed = 0
                              THEN "Waiting for next scheduled task"
                              ELSE last_activity
          /\ last_status_print' = current_time
     ELSE UNCHANGED <<last_activity, last_status_print>>
  /\ pc' = "sleep"
  /\ UNCHANGED <<library, authenticator, variant, db, config, edits, loopErrors, callSecs, loop_count, dev_mode, api, is_running, interval,
                 next_run, consecutive_errors, now, current_time, tasks_executed,
                 iteration_count, conditions, ret, tickLog, lastRun, seenOff, tickDue, tickLogins,
                 storeOff, signalled>>

\* DebugReelsAutoPilot.run: the "no tasks" log line, no status print.
DebugNoTasks ==
  /\ variant = "debug" /\ pc = "heartbeat"
  /\ pc' = "sleep"
  /\ UNCHANGED <<library, authenticator, variant, db, config, edits, loopErrors, callSecs, loop_count, dev_mode, api, is_running, interval,
                 next_run, last_status_print, last_activity, consecutive_errors, now,
                 current_time, tasks_executed, iteration_count, conditions, ret,
                 tickLog, lastRun, seenOff, tickDue, tickLogins,
                 storeOff, signalled>>

DebugSleepSecs == 3

MAX_LOGIN_ATTEMPTS == 3

\* time.sleep(1) of ReelsAutoPilot.run, time.sleep(3) of DebugReelsAutoPilot.run.
TickSleep ==
  /\ pc = "sleep"
  /\ now' = now + (IF variant = "app" THEN TickSleepSecs ELSE DebugSleepSecs)
  /\ pc' = "loop"
  /\ UNCHANGED <<library, authenticator, variant, db, config, edits, loopErrors, callSecs, loop_count, dev_mode, api, is_running, interval,
                 next_run, last_status_print, last_activity, consecutive_errors,
                 current_time, tasks_executed, iteration_count, conditions, ret,
                 tickLog, lastRun, seenOff, tickDue, tickLogins,
                 storeOff, signalled>>

\* `except Exception` of the main loop: an error raised in the tick outside the
\* task wrappers (here: while the status is printed).  ReelsAutoPilot calls
\* handle_error and sleeps 5 s; DebugReelsAutoPilot only sleeps.
LoopError ==
  /\ pc = "heartbeat"
  /\ loopErrors < MaxLoopErrors
  /\ loopErrors' = loopErrors + 1
  /\ IF variant = "app"
     THEN handle_error("errsleep",
                       [NoRun EXCEPT !.task = "Loop", !.outcome = "fail",
                                     !.start = now, !.finish = now,
                                     !.errBefore = consecutive_errors,
                                     !.apiBefore = api])
     ELSE /\ pc' = "errsleep"
          /\ UNCHANGED <<consecutive_errors, api, config, ret, tasks_executed, lastRun,
                         tickLogins>>
  /\ UNCHANGED <<library, authenticator, variant, db, edits, callSecs, loop_count, dev_mode, is_running, interval, next_run,
                 last_status_print, last_activity, now, current_time,
                 iteration_count, conditions, tickLog, seenOff, tickDue,
                 storeOff, signalled>>

ErrorSleepLeavesLoop ==
  /\ pc = "errsleep"
  /\ now' = now + ErrorSleepSecs
  /\ pc' = "stopped"
  /\ UNCHANGED <<library, authenticator, variant, db, config, edits, loopErrors, callSecs, loop_count, dev_mode, api, is_running, interval,
                 next_run, last_status_print, last_activity, consecutive_errors,
                 current_time, tasks_executed, iteration_count, conditions, ret,
                 tickLog, lastRun, seenOff, tickDue, tickLogins,
                 storeOff, signalled>>

\* The time.sleep(5) that ends the `except Exception` handler of the main loop.
ErrorSleep ==
  /\ pc = "errsleep"
  /\ now' = now + ErrorSleepSecs
  /\ pc' = "loop"
  /\ UNCHANGED <<library, authenticator, variant, db, config, edits, loopErrors, callSecs, loop_count, dev_mode, api, is_running, interval,
                 next_run, last_status_print, last_activity, consecutive_errors,
                 current_time, tasks_executed, iteration_count, conditions, ret,
                 tickLog, lastRun, seenOff, tickDue, tickLogins,
                 storeOff, signalled>>

\* ------------------------------------------------------------- environment
InTick ==
  {Chk[t] : t \in Tasks} \cup {Body[t] : t \in Tasks}
    \cup {"login", "cooldown", "heartbeat", "sleep", "errsleep"}

\* The process is inside the `except Exception` handler of the main loop.
InLoopHandler == pc = "errsleep" \/ (pc \in {"login", "cooldown"} /\ ret = "errsleep")

\* KeyboardInterrupt.  Raised inside the `try` of the main loop it ends whatever
\* is executing (no wrapper catches it) and `except KeyboardInterrupt` clears
\* is_running; raised inside the `except Exception` handler it leaves run().
Interrupt ==
  /\ pc \in InTick
  /\ is_running
  /\ IF InLoopHandler
     THEN /\ pc' = "crashed"
          /\ is_running' = is_running
     ELSE /\ pc' = "loop"
          /\ is_running' = FALSE
  /\ ret' = "none"
  /\ signalled' = TRUE
  /\ lastRun' = IF pc \in {Body[t] : t \in Tasks}
                THEN [lastRun EXCEPT !.outcome = "interrupted"]
                ELSE lastRun
  /\ UNCHANGED <<library, authenticator, variant, db, config, edits, loopErrors, callSecs, loop_count, dev_mode, api, interval, next_run,
                 last_status_print, last_activity, consecutive_errors, now,
                 current_time, tasks_executed, iteration_count, conditions, tickLog, seenOff, tickDue, tickLogins,
                 storeOff>>

\* The Config table gets the text v under key k while the scheduler runs.
EditStore(k, v) ==
  /\ edits < MaxEdits
  /\ pc \notin {"start", "failed", "stopped", "crashed"}
  /\ v # db[k]
  /\ db' = [db EXCEPT ![k] = v]
  /\ edits' = edits + 1
  /\ UNCHANGED <<library, authenticator, variant, config, loopErrors, callSecs, loop_count, dev_mode, api, is_running, interval, next_run,
                 last_status_print, last_activity, consecutive_errors, now,
                 current_time, tasks_executed, iteration_count, conditions, pc, ret,
                 tickLog, lastRun, seenOff, tickDue, tickLogins,
                 storeOff, signalled>>

\* An operator (or the dashboard API) rewrites one setting of the Config table.
OperatorEdit ==
  \E k \in ConfigKeys :
    \E v \in (IF k \in FlagKeys THEN DbFlagValues ELSE DbIntervalValues) : EditStore(k, v)

\* An operator switches Scrape or Post off in the Config table while the loop
\* sleeps between two ticks.
OperatorSwitchesOff ==
  /\ pc = "sleep"
  /\ \E t \in {"Scrape", "Post"} : EditStore(FlagKey[t], "0")

\* The scheduler by itself: no error outside the task wrappers, no edit of the
\* store, no shutdown request.
Next ==
  \/ RunStart
  \/ LoopTop
  \/ DebugLoopTop
  \/ \E t \in Tasks : NotDue(t)
  \/ \E t \in Tasks : NoClient(t)
  \/ \E t \in Tasks : BeginBody(t)
  \/ run_reels_scraper
  \/ run_poster
  \/ run_remover
  \/ run_youtube_scraper
  \/ LoginReturn
  \/ Cooldown
  \/ Heartbeat
  \/ DebugNoTasks
  \/ TickSleep

Spec == Init /\ [][Next]_vars

\* The scheduler with errors raised in the tick outside the task wrappers; the
\* external calls made in the loop take no time.
InitErrors == Init /\ callSecs = 0

NextErrors == Next \/ LoopError \/ ErrorSleep

SpecErrors == InitErrors /\ [][NextErrors]_vars

\* The scheduler while an operator edits the configuration store, started in
\* production mode with every task enabled.
InitConfig ==
  /\ Init
  /\ callSecs = 0
  /\ ~dev_mode
  /\ \A t \in Tasks : db[FlagKey[t]] = "1"
  /\ db[IntervalKey["Scrape"]] = "1"

NextConfig == Next \/ OperatorEdit

SpecConfig == InitConfig /\ [][NextConfig]_vars

\* The scheduler when the login at startup may keep it waiting.
NextStatus == Next \/ RunStartWaiting

SpecStatus == Init /\ [][NextStatus]_vars

\* The scheduler with errors raised in the tick while an operator switches the
\* session tasks off, started in production mode with one choice of intervals.
InitReset ==
  /\ Init
  /\ callSecs = 0
  /\ ~dev_mode
  /\ db[IntervalKey["Scrape"]] = "1"

NextReset == NextErrors \/ OperatorSwitchesOff

SpecReset == InitReset /\ [][NextReset]_vars

\* The scheduler with a shutdown request.
InitShutdown == Init /\ callSecs = 0

NextShutdown == NextErrors \/ Interrupt

SpecShutdown == InitShutdown /\ [][NextShutdown]_vars

\* --------------------------------------------------------------- the process
\* main(): the status the process ends with.  run() has returned (after the
\* loop, or at once when initialize_instagram failed) and main falls off its
\* end: 0.  A KeyboardInterrupt that left run() is no Exception, so main's
\* `except Exception: sys.exit(1)` does not see it and the interpreter ends the
\* process as one killed by SIGINT.
Exited == pc \in {"failed", "stopped", "crashed"}

ExitCode == IF pc = "crashed" THEN 130 ELSE 0

\* ------------------------------------------------- the scraper's body: reels.py
\* Reel.code is declared unique: a commit that would store a second row with
\* the code of an existing row fails.
UniqueViolation(table, code) == \E i \in 1..Len(table) : table[i].code = code

ExistsNever(table, code) == FALSE

\* download_and_save_reel: `session.query(Reel).filter_by(code=code).first()`.
Exists(table, code) == \E i \in 1..Len(table) : table[i].code = code

\* _save_to_database: one row with is_posted False is added and committed; when
\* the commit fails the session is rolled back and the exception is raised again.
save_to_database(table, code, committed) ==
  IF committed /\ ~UniqueViolation(table, code)
  THEN Append(table, [code |-> code, is_posted |-> FALSE])
  ELSE table

\* One call of ReelsScraper.download_and_save_reel for a feed item.  The item
\* may lack its code or video_url; the existence query, the download with its
\* verification, and the commit may each fail.
download_and_save_reel ==
  /\ calls < MaxCalls
  /\ \E code \in Codes \cup {NoCode}, queried, fetched, committed \in BOOLEAN :
       LET known == queried /\ Exists(reel_table, code)
           downloading == code # NoCode /\ queried /\ ~known
           saving == downloading /\ fetched
           table == IF saving THEN save_to_database(reel_table, code, committed)
                    ELSE reel_table
       IN /\ reel_table' = table
          /\ files' = IF saving THEN files \cup {code} ELSE files
          /\ lastSave' = [code |-> code,
                          copiesBefore |-> Cardinality({i \in 1..Len(reel_table) :
                                                         reel_table[i].code = code}),
                          downloaded |-> downloading,
                          returned |-> saving /\ table # reel_table,
                          rowsBefore |-> Len(reel_table),
                          call |-> calls + 1]
  /\ calls' = calls + 1
  /\ UNCHANGED <<orchestrator, authenticator, uploads, failed_marks, lastPost>>

\* ---------------------------------------------------- the poster's body: poster.py
Unposted(table) == SelectSeq(table, LAMBDA r : ~r.is_posted)

\* get_next_reel: `filter_by(is_posted=False).first()`, None when the query raises.
get_next_reel(table, readable) ==
  IF readable /\ Unposted(table) # <<>> THEN Head(Unposted(table)).code ELSE NoCode

\* _verify_file: the file exists and has at least 10000 bytes.
verify_file(code) == code \in files

\* _mark_as_posted: the update of is_posted and its commit; when either raises,
\* the error is logged, the session rolled back, and the caller is not told.
mark_as_posted(table, code, committed) ==
  IF committed
  THEN [i \in 1..Len(table) |->
          IF table[i].code = code THEN [table[i] EXCEPT !.is_posted = TRUE] ELSE table[i]]
  ELSE table

\* _mark_as_failed: logs a warning; the row is not changed.
mark_as_failed(table, code) == table

\* One call of poster.main with a client: ReelsPoster.run.  load_all_config may
\* raise; the query may raise; clip_upload returns a media, returns nothing or
\* raises; the commit in _mark_as_posted may fail.
PosterRun ==
  /\ calls < MaxCalls
  /\ \E loaded, readable, media, committed \in BOOLEAN :
       LET reel == IF loaded THEN get_next_reel(reel_table, readable) ELSE NoCode
           valid == reel # NoCode /\ verify_file(reel)
           uploaded == valid /\ media
           res == IF ~loaded THEN "raised"
                  ELSE IF reel = NoCode THEN "no_reel"
                  ELSE IF uploaded THEN "posted" ELSE "upload_failed"
           later == {c \in Codes :
                       \E i, k \in 1..Len(reel_table) :
                          /\ reel_table[i].code = reel /\ reel_table[k].code = c
                          /\ i < k /\ ~reel_table[k].is_posted /\ verify_file(c)}
       IN /\ reel_table' = IF uploaded THEN mark_as_posted(reel_table, reel, committed)
                           ELSE IF reel # NoCode /\ ~valid
                                THEN mark_as_failed(reel_table, reel)
                                ELSE reel_table
          /\ uploads' = IF uploaded THEN [uploads EXCEPT ![reel] = @ + 1] ELSE uploads
          /\ failed_marks' = IF reel # NoCode /\ ~valid THEN failed_marks \cup {reel}
                             ELSE failed_marks
          /\ lastPost' = [selected |-> reel, result |-> res, valid |-> valid,
                          failedBefore |-> reel \in failed_marks,
                          waiting |-> later,
                          uploadsBefore |-> IF reel = NoCode THEN 0 ELSE uploads[reel],
                          call |-> calls + 1]
          /\ Escapes(res) <=> ~loaded
  /\ calls' = calls + 1
  /\ UNCHANGED <<orchestrator, authenticator, files, lastSave>>

\* The file of a stored reel leaves the download directory or is cut short
\* (the cleanup of expired files, a full disk, the operator).
FileLost ==
  /\ \E c \in files : files' = files \ {c}
  /\ UNCHANGED <<orchestrator, authenticator, reel_table, uploads, failed_marks,
                 calls, lastPost, lastSave>>

\* Calls of the two bodies in any order, on a fresh installation.
InitLibrary ==
  /\ Init
  /\ variant = "app" /\ ~dev_mode /\ callSecs = 0
  /\ \A t \in Tasks : is_enabled(config[FlagKey[t]])
  /\ db[IntervalKey["Scrape"]] = "1"

NextLibrary == download_and_save_reel \/ PosterRun \/ FileLost

SpecLibrary == InitLibrary /\ [][NextLibrary]_vars

\* ------------------------------------------------- InstagramAuthenticator.login
\* login() is called: the for loop starts with attempt 0.
LoginCall ==
  /\ login_pc \in {"idle", "returned"}
  /\ login_calls < MaxLoginCalls
  /\ login_calls' = login_calls + 1
  /\ attempt' = 0
  /\ login_pc' = "loop"
  /\ login_result' = "none"
  /\ login_log' = <<>>
  /\ UNCHANGED <<orchestrator, library, session_file>>

TriesSessionEveryAttempt(att, file) == file

\* `if os.path.exists(self.session_file) and attempt == 0`
TriesSession(att, file) == file /\ att = 0

\* One pass of the loop body.  Client() may raise; _login_with_session and
\* _login_with_credentials return True or False and raise nothing;
\* os.remove may raise, which ends the pass in `except Exception`; a successful
\* login writes session.json unless dump_settings fails.  After the last pass
\* without success login() returns None.
LoginAttempt ==
  /\ login_pc = "loop"
  /\ \E built, session_ok, remove_ok, credentials_ok, dumped \in BOOLEAN :
       LET withSession == built /\ TriesSession(attempt, session_file)
           bySession == withSession /\ session_ok
           removing == withSession /\ ~session_ok
           withCredentials == built /\ ~bySession /\ (removing => remove_ok)
           byCredentials == withCredentials /\ credentials_ok
           success == bySession \/ byCredentials
           pass == [index |-> attempt,
                    session |-> IF ~withSession THEN "skipped"
                                ELSE IF session_ok THEN "ok" ELSE "failed",
                    removal |-> IF ~removing THEN "skipped"
                                ELSE IF remove_ok THEN "done" ELSE "raised",
                    credentials |-> IF ~withCredentials THEN "skipped"
                                    ELSE IF credentials_ok THEN "ok" ELSE "failed",
                    raised |-> ~built \/ (removing /\ ~remove_ok),
                    fileBefore |-> session_file]
       IN /\ login_log' = Append(login_log, pass)
          /\ session_file' = IF success /\ dumped THEN TRUE
                             ELSE IF removing /\ remove_ok THEN FALSE
                             ELSE session_file
          /\ IF success
             THEN login_pc' = "returned" /\ login_result' = "client"
                  /\ attempt' = attempt
             ELSE IF attempt + 1 < MAX_LOGIN_ATTEMPTS
             THEN login_pc' = "loop" /\ login_result' = login_result
                  /\ attempt' = attempt + 1
             ELSE login_pc' = "returned" /\ login_result' = "None"
                  /\ attempt' = attempt
  /\ UNCHANGED <<orchestrator, library, login_calls>>

NextLogin == LoginCall \/ LoginAttempt

SpecLogin == InitLibrary /\ [][NextLogin]_vars

\* ------------------------------------------------------------------ claims
Rank == [Scrape |-> 1, Post |-> 2, Cleanup |-> 3, Youtube |-> 4]

BodyPcs == {Body[t] : t \in Tasks}

Started(t) == \E i \in 1..Len(tickLog) : tickLog[i] = t

\* The wrapper of task t has returned to the loop and nothing has run since.
Returned(t, outcome) ==
  /\ lastRun.task = t
  /\ lastRun.outcome = outcome
  /\ pc = After[t]

\* C1: the task bodies started within one tick follow the order Scrape, Post,
\* Cleanup, Youtube, and the body that is executing is the latest one started,
\* so an earlier task has finished before a later one starts.
C1_FixedOrder ==
  /\ \A i, j \in 1..Len(tickLog) : i < j => Rank[tickLog[i]] < Rank[tickLog[j]]
  /\ \A t \in Tasks : pc = Body[t] => (tickLog # <<>> /\ tickLog[Len(tickLog)] = t)
  /\ \A t \in Tasks : (lastRun.task = t /\ lastRun.outcome \in {"ok", "fail"})
                        => (Started(t) /\ lastRun.finish <= now)

\* C1 witness: all four bodies were started in one tick of ReelsAutoPilot.
C1_AllFourInOneTick == variant = "app" /\ Len(tickLog) = 4 /\ pc = "heartbeat"

\* C2: a task whose enabled flag was false when the tick evaluated it has no
\* body started in that tick, whatever its due time, and its due time is the
\* one it had when the tick began.
C2_DisabledNeverRuns ==
  \A t \in seenOff :
    /\ ~Started(t)
    /\ pc # Body[t]
    /\ next_run[t] = tickDue[t]

\* C2 witness: a tick has ended in which a disabled task's due time had passed.
C2_DisabledDueTaskSkipped ==
  /\ pc = "sleep"
  /\ \E t \in seenOff : current_time >= next_run[t] /\ ~Started(t)

\* C3 as stated: after a task body has failed, the task's due time is a full
\* interval after the start of the failed run.
C3_FailedRunRescheduled ==
  \A t \in Tasks :
    Returned(t, "fail") => next_run[t] >= lastRun.start + Minutes(RescheduleInterval(t))

C5_NoClientNoEffect ==
  \A t \in {"Scrape", "Post"} :
    Returned(t, "skip")
      => /\ ~lastRun.apiBefore
         /\ ~Started(t)
         /\ consecutive_errors = lastRun.errBefore
         /\ next_run[t] = lastRun.dueBefore
         /\ next_run[t] = tickDue[t]
         /\ current_time >= next_run[t]

\* C5 witness: ReelsAutoPilot skipped Post for want of a client.
C5_PostSkipped == variant = "app" /\ Returned("Post", "skip") /\ ~api

\* C6 as stated: in every tick of ReelsAutoPilot that ends with no client while
\* Scrape or Post is enabled, a login was attempted.
C6_LoginRetriedEveryTick ==
  (variant = "app" /\ pc = "sleep" /\ ~api /\ NeedsInstagram) => tickLogins >= 1

\* C7: right after a successful run of Scrape or Post the failure counter is 0.
C7_SuccessZeroesCounter ==
  \A t \in {"Scrape", "Post"} :
    (variant = "app" /\ Returned(t, "ok")) => consecutive_errors = 0

\* C7 witness: Post succeeded when the counter held earlier failures.
C7_PostSucceededAfterFailures ==
  variant = "app" /\ Returned("Post", "ok") /\ lastRun.errBefore > 0

\* C8: a failed run of Scrape or Post with a client raises the failure counter
\* by exactly one; below the ceiling that is the value the loop continues with.
C8_FailureAddsOne ==
  \A t \in {"Scrape", "Post"} :
    (variant = "app" /\ lastRun.task = t /\ lastRun.outcome = "fail")
      => /\ lastRun.apiBefore
         /\ IF lastRun.errBefore + 1 < max_consecutive_errors
            THEN /\ consecutive_errors = lastRun.errBefore + 1
                 /\ lastRun.invalidations = 0
                 /\ pc \notin {"login", "cooldown"}
            ELSE /\ lastRun.invalidations = 1
                 /\ pc = "login" => consecutive_errors = lastRun.errBefore + 1

\* C8 witness: the third failure in a row has been counted.
C8_ThirdFailureCounted ==
  /\ variant = "app" /\ Returned("Scrape", "fail")
  /\ lastRun.errBefore = 2 /\ consecutive_errors = 3

\* C9 as stated: nothing but a run of Scrape or Post raises the failure counter.
C9_OnlySessionTasksRaise ==
  [][consecutive_errors' > consecutive_errors => pc \in {"inScrape", "inPost"}]_vars

\* C9 amended: the failure counter changes only when a body of Scrape or Post
\* returns, when the reset zeroes it, or when an error raised in the loop
\* outside the task wrappers is handed to handle_error, which raises it by one;
\* runs of Cleanup and Youtube, skipped tasks and the heartbeat leave it alone.
C9_CounterChanges ==
  [][/\ consecutive_errors' # consecutive_errors
          => \/ pc \in {"inScrape", "inPost"}
             \/ pc = "login" /\ consecutive_errors' = 0
             \/ /\ pc = "heartbeat" /\ variant = "app" /\ loopErrors' = loopErrors + 1
                /\ \/ consecutive_errors' = consecutive_errors + 1
                   \/ consecutive_errors + 1 >= max_consecutive_errors
     /\ (pc = "heartbeat" /\ variant = "app" /\ loopErrors' = loopErrors + 1
           /\ consecutive_errors + 1 < max_consecutive_errors)
          => consecutive_errors' = consecutive_errors + 1
    ]_vars

\* C9 witness: in a tick where Cleanup or Youtube ran, an error raised in the
\* loop has raised a counter that already held a failure.
C9_LoopErrorCounted ==
  /\ variant = "app" /\ pc = "errsleep" /\ lastRun.task = "Loop"
  /\ lastRun.errBefore > 0 /\ consecutive_errors = lastRun.errBefore + 1
  /\ (Started("Cleanup") \/ Started("Youtube"))

\* C10: the failure that brings the counter to the ceiling drops the client
\* once and calls initialize_instagram once (with at most one login, made after
\* the client was dropped); the counter is 0 from the return of that call on,
\* and no task body starts with the counter at the ceiling.
C10_OneResetPerFailure ==
  /\ (variant = "app" /\ lastRun.outcome = "fail" /\ lastRun.task \in {"Scrape", "Post"}
        /\ lastRun.errBefore + 1 >= max_consecutive_errors)
       => /\ lastRun.invalidations = 1
          /\ lastRun.inits = 1
          /\ lastRun.logins <= 1
          /\ tickLogins <= Len(tickLog)
          /\ pc = "login" => (lastRun.logins = 1 /\ ~api)
          /\ pc # "login" => consecutive_errors = 0
  /\ pc \in BodyPcs => consecutive_errors < max_consecutive_errors
  /\ lastRun.invalidations <= 1 /\ lastRun.inits <= 1

\* C10 witness: the reset made by a failure of Scrape is over and the loop goes on.
C10_ResetDone ==
  /\ variant = "app" /\ Returned("Scrape", "fail")
  /\ lastRun.invalidations = 1 /\ lastRun.logins = 1 /\ consecutive_errors = 0

\* C11: the failure counter never exceeds the ceiling, and it is strictly below
\* the ceiling whenever a tick begins; while no shutdown was requested it is at
\* the ceiling only inside handle_error, during the login that precedes the
\* zeroing, so the reset follows within the same tick.
C11_BelowCeilingAtTickStart ==
  /\ consecutive_errors <= max_consecutive_errors
  /\ (pc = "chkScrape" \/ (pc = "loop" /\ is_running))
       => consecutive_errors < max_consecutive_errors
  /\ (consecutive_errors = max_consecutive_errors /\ ~signalled)
       => (pc = "login" /\ ~api /\ lastRun.invalidations = 1)

\* C11 witness: a failure has brought the counter to the ceiling.
C11_CeilingReached ==
  pc = "login" /\ consecutive_errors = max_consecutive_errors /\ ~signalled

\* C12: once handle_error has dropped the client, the tick's time was read
\* before the failure, the counter is zeroed when the login returns, and the
\* loop goes on only after the 60 s cooldown has elapsed; no task body has been
\* started since the failing one, and the next tick begins after all of it.
C12_CooldownBeforeNextTick ==
  lastRun.invalidations = 1
    => /\ current_time <= lastRun.start
       /\ pc \notin BodyPcs
       /\ lastRun.task \in Tasks
            => (tickLog # <<>> /\ tickLog[Len(tickLog)] = lastRun.task)
       /\ pc = "login"
            => (now = lastRun.finish /\ consecutive_errors = max_consecutive_errors)
       /\ pc # "login" => consecutive_errors = 0
       /\ pc \notin {"login", "cooldown"} => now >= lastRun.finish + CooldownSecs

\* C12 witness: a tick is about to end in which the reset and its cooldown took place.
C12_TickEndsAfterCooldown ==
  /\ pc = "sleep" /\ lastRun.invalidations = 1
  /\ now >= current_time + CooldownSecs

C14_StoreFlagObeyedNextTick ==
  variant = "app" => \A t \in storeOff : ~Started(t) /\ pc # Body[t]

\* C15 as stated, for ReelsAutoPilot: the interval a successful run is
\* rescheduled with is the task's interval setting at the time of the run, as
\* the reloaded configuration or the store holds it.
C15_IntervalReadAtRun ==
  \A t \in Tasks :
    (variant = "app" /\ ~dev_mode /\ Returned(t, "ok"))
      => next_run[t] - lastRun.finish - lastRun.jitter
           \in {Minutes(IntervalOf(config, t)),
                Minutes(IntervalOf(load_all_config(db), t))}

\* C16 as stated: no task body is cut short by a shutdown request.
C16_BodyRunsToCompletion ==
  \A t \in Tasks :
    (signalled /\ lastRun.task = t /\ Started(t))
      => lastRun.outcome \in {"running", "ok", "fail"}

\* C17: once the loop of ReelsAutoPilot has been entered, run() is left only
\* after a KeyboardInterrupt: whatever the tasks' outcomes, the loss of the
\* client, a reset or an error in the loop, the loop stops only with is_running
\* cleared by the interrupt handler.
C17_LeavesOnlyOnSignal ==
  variant = "app"
    => /\ pc \in {"stopped", "crashed"} => signalled
       /\ pc = "stopped" => ~is_running
       /\ ~signalled => is_running

\* C17 witness: the loop has stopped after a signal, following a tick in which
\* an error was raised in the loop and the client was absent.
C17_StoppedAfterSignal ==
  /\ variant = "app" /\ pc = "stopped" /\ signalled
  /\ loopErrors > 0 /\ ~api /\ loop_count >= 2

\* The `if` of task t was true in this tick, as far as the tick's own reading goes.
WasDue(t) ==
  IF variant = "app"
  THEN is_enabled(config[FlagKey[t]]) /\ current_time >= tickDue[t]
  ELSE conditions[t]

\* C18: after the body of a task has raised, the loop is still running and
\* continues with the tick, not with the loop's error handler; at the end of the
\* tick every task whose `if` was true has had its wrapper called (its body
\* started, or, for Scrape and Post, skipped for want of a client).
C18_TaskErrorContained ==
  /\ \A t \in Tasks :
       (lastRun.task = t /\ lastRun.outcome = "fail")
         => /\ is_running
            /\ pc \in {"login", "cooldown", "heartbeat", "sleep", "loop"}
                        \cup {Chk[u] : u \in {v \in Tasks : Rank[v] > Rank[t]}}
  /\ pc \in {"heartbeat", "sleep"}
       => \A t \in Tasks : WasDue(t) => (Started(t) \/ requiresSession(t))

\* C18 witness: in the first tick Scrape and Post failed and the two other
\* bodies were started all the same, the last of them failing too.
C18_LaterTasksRunAfterFailures ==
  /\ variant = "app" /\ pc = "heartbeat" /\ loop_count = 1
  /\ consecutive_errors = 2 /\ Len(tickLog) = 4
  /\ lastRun.task = "Youtube" /\ lastRun.outcome = "fail"

\* C19 as stated: the process ends with status 0 after a graceful shutdown and
\* with a non-zero status when startup failed.
C19_ExitCodes ==
  /\ pc = "stopped" => ExitCode = 0
  /\ pc = "failed" => ExitCode # 0

\* Scrape or Post is enabled, going by the flags of the store.
SessionTaskEnabled == StoreEnabled("Scrape") \/ StoreEnabled("Post")

\* C20: startup fails only when Scrape or Post is enabled and the login returns
\* no client, and then no tick and no task body ever follows; when both are
\* disabled no login is made and the loop is entered without a client.
C20_StartupFailure ==
  /\ pc = "failed"
       => /\ SessionTaskEnabled /\ ~api /\ tickLogins = 1
          /\ loop_count = 0 /\ iteration_count = 0
          /\ tickLog = <<>> /\ lastRun = NoRun
  /\ (pc = "loop" /\ loop_count = 0 /\ iteration_count = 0)
       => IF SessionTaskEnabled
          THEN api /\ tickLogins = 1
          ELSE ~api /\ tickLogins = 0 /\ now = 0
  /\ (loop_count = 0 /\ iteration_count = 0) => (tickLog = <<>> /\ pc \notin BodyPcs)

\* C20 witness: with Scrape and Post disabled the loop runs a task body with no
\* client and no login made.
C20_LoopRunsWithoutClient ==
  /\ ~SessionTaskEnabled /\ ~api /\ now = 0
  /\ pc = "inRemove" /\ loop_count + iteration_count = 1

\* C21: initialize_instagram with a client held calls no login, whatever the
\* configuration, and leaves the client as it is; every call of auth.login is
\* made with no client held (none yet at startup, or the one held dropped by
\* handle_error just before the call), and the client changes only when
\* handle_error drops it or a login returns.
C21_LoginOnlyWithoutHandle ==
  [][/\ ~CallsLogin(TRUE)
     /\ tickLogins' = tickLogins + 1
          => \/ pc = "start" /\ ~api
             \/ pc' = "login" /\ ~api' /\ lastRun'.invalidations = 1
     /\ api' # api
          => \/ pc = "start" /\ ~api /\ tickLogins' = tickLogins + 1
             \/ pc = "login" /\ ~api
             \/ api /\ lastRun'.invalidations = 1
     /\ (api /\ api') => (tickLogins' = tickLogins \/ tickLogins' = 0)
    ]_vars

\* C21 witness: a client was held, handle_error dropped it, and the one login
\* made since has returned a new client.
C21_HandleReacquired ==
  /\ variant = "app" /\ pc = "cooldown" /\ api
  /\ lastRun.apiBefore /\ lastRun.invalidations = 1 /\ lastRun.logins = 1

\* C22: the heartbeat step of a tick, whether or not it prints, leaves every
\* task's due time, interval and enabled flag, the failure counter, the client
\* and the loop's running flag as they were.
C22_HeartbeatKeepsSchedule ==
  [][(variant = "app" /\ pc = "heartbeat" /\ pc' = "sleep")
       => /\ next_run' = next_run
          /\ interval' = interval
          /\ config' = config
          /\ consecutive_errors' = consecutive_errors
          /\ api' = api
          /\ is_running' = is_running
    ]_vars

\* C22 witness: in production mode a heartbeat was printed in a tick that began
\* with failures counted, a client held and a task run.
C22_PrintedWithFailuresCounted ==
  /\ variant = "app" /\ ~dev_mode /\ pc = "sleep"
  /\ last_status_print = current_time /\ current_time >= StatusIntervalProd
  /\ consecutive_errors > 0 /\ api /\ tickLog # <<>>

\* C23 as stated: at the heartbeat step of a tick a heartbeat is printed exactly
\* when the interval has elapsed on the clock since the last report, so tasks
\* that ran or failed in the tick do not hold it back.
C23_PrintedWhenElapsedOnClock ==
  [][(variant = "app" /\ pc = "heartbeat" /\ pc' = "sleep")
       => ((last_status_print' # last_status_print)
             <=> (now - last_status_print
                    >= IF dev_mode THEN StatusIntervalDev ELSE StatusIntervalProd))
    ]_vars

\* C23 amended: at the heartbeat step of a tick a heartbeat is printed exactly
\* when the time read at the start of that tick is at least the interval (300 s
\* in production, 60 s in development) past the last report, whatever tasks ran
\* or failed in the tick; the report is dated with that tick-start time, so two
\* consecutive reports are dated at least the interval apart.  Time that passes
\* while the tasks of the tick run counts from the next tick on.
C23_PrintedWhenElapsedAtTickStart ==
  [][(variant = "app" /\ pc = "heartbeat" /\ pc' = "sleep")
       => LET every == IF dev_mode THEN StatusIntervalDev ELSE StatusIntervalProd IN
          /\ (last_status_print' # last_status_print)
               <=> (current_time - last_status_print >= every)
          /\ last_status_print' # last_status_print
               => /\ last_status_print' = current_time
                  /\ last_status_print' - last_status_print >= every
          /\ current_time <= now
    ]_vars

\* C23 witness: in production mode a heartbeat was printed at the end of a tick
\* in which two bodies were started and the last one failed, one tick after a
\* tick that was too early for it.
C23_PrintedAfterFailedTask ==
  /\ variant = "app" /\ ~dev_mode /\ pc = "sleep" /\ loop_count = 2
  /\ last_status_print = current_time /\ current_time >= StatusIntervalProd
  /\ Len(tickLog) >= 2 /\ lastRun.outcome = "fail"

\* C24 as stated: until the first tick every task's due time is the time of
\* construction, and at the end of the first tick every task found enabled
\* (with a client held, for Scrape and Post) has had its body started.
C24_AllDueAtStartup ==
  /\ (loop_count = 0 /\ iteration_count = 0) => \A t \in Tasks : next_run[t] = 0
  /\ (pc = "heartbeat" /\ loop_count + iteration_count = 1)
       => \A t \in Tasks \ seenOff : (requiresSession(t) => api) => Started(t)

\* C25 as stated, for ReelsAutoPilot: the configuration the scheduler sees
\* changes only at the start of run() and when handle_error resets the session;
\* no other step of a tick, and no task run, changes it.
C25_ReloadOnlyAtStartAndReset ==
  [][(variant = "app" /\ config' # config)
       => \/ pc = "start"
          \/ pc' = "login" /\ lastRun'.invalidations = 1
    ]_vars

\* C26: a body that was started and has not returned is the one the loop is
\* inside, so at most one body executes at a time and the loop evaluates no
\* other task until it returns; no task is started twice in a tick; while
\* handle_error logs in or cools down no body is executing; and the body of
\* Scrape or Post that is executing is the only user of the client.
C26_OneBodyAtATime ==
  /\ \A t \in Tasks : pc = Body[t] => (lastRun.task = t /\ lastRun.outcome = "running")
  /\ lastRun.outcome = "running" => pc = Body[lastRun.task]
  /\ \A i, j \in 1..Len(tickLog) : tickLog[i] = tickLog[j] => i = j
  /\ pc \in {"login", "cooldown"} => lastRun.outcome = "fail"
  /\ \A t \in {"Scrape", "Post"} : pc = Body[t] => (api /\ lastRun.apiBefore)

\* C26 witness: the body of Post is executing with the client, in a tick in
\* which the body of Scrape was started before it and has returned.
C26_PostBodyAfterScrape ==
  /\ variant = "app" /\ pc = "inPost" /\ api
  /\ tickLog = <<"Scrape", "Post">> /\ lastRun.task = "Post"

\* C27 as stated: in development mode every task interval of ReelsAutoPilot is
\* shorter than the one production mode takes from the same configuration, and
\* so is the heartbeat interval.
C27_DevModeShortensAll ==
  (variant = "app" /\ dev_mode /\ pc = "loop")
    => /\ \A t \in Tasks : interval[t] < IntervalOf(load_all_config(db), t)
       /\ status_interval < StatusIntervalProd

\* C28: a task whose wrapper is called in a tick was due, by the due time it
\* had when the tick began, at the time read at the top of the tick; a task
\* whose due time lay after that reading is not run in the tick however late
\* the clock has become meanwhile, and at the end of a tick every enabled task
\* that was due at the reading has had its wrapper called.
C28_DueDecidedAtTickStart ==
  /\ current_time <= now
  /\ \A t \in Tasks :
       (Started(t) \/ pc = Body[t] \/ (lastRun.task = t /\ pc \in InTick))
         => current_time >= tickDue[t]
  /\ pc \in {"heartbeat", "sleep"}
       => \A t \in Tasks \ seenOff :
            current_time >= tickDue[t] => (Started(t) \/ requiresSession(t))

\* C28 witness: Post became due while handle_error cooled down after a failure
\* of Scrape in the same tick, and the tick has ended without running it.
C28_PostDueMidTickNotRun ==
  /\ variant = "app" /\ pc = "sleep" /\ "Post" \notin seenOff
  /\ tickDue["Post"] > current_time /\ now >= next_run["Post"]
  /\ ~Started("Post") /\ Started("Scrape")

\* C29 as stated, for ReelsAutoPilot: Cleanup and Youtube, when enabled and due at the top of a
\* tick, have their bodies started in that tick whether or not a client is
\* held; once the body has returned or raised the task has a new, later due
\* time; and the client is the same before, during and after the run.
C29_SessionFreeTasksRunAndReschedule ==
  variant = "app" =>
    \A t \in {"Cleanup", "Youtube"} :
      /\ (pc \in {"heartbeat", "sleep"} /\ t \notin seenOff /\ current_time >= tickDue[t])
           => Started(t)
      /\ pc = Body[t] => api = lastRun.apiBefore
      /\ (lastRun.task = t /\ lastRun.outcome \in {"ok", "fail"})
           => /\ api = lastRun.apiBefore
              /\ lastRun.invalidations = 0 /\ lastRun.logins = 0
              /\ next_run[t] > lastRun.dueBefore
              /\ next_run[t] > current_time

\* C30 as stated: in both orchestrators a successful run of a task is
\* rescheduled with the task's own interval: the one the configuration store
\* holds under the task's own key or, in development mode, the task's own
\* development interval.
C30_OwnIntervalSetting ==
  \A t \in Tasks :
    Returned(t, "ok")
      => next_run[t] - lastRun.finish - lastRun.jitter
           = Minutes(IF dev_mode THEN DevInterval[t]
                     ELSE IntervalOf(load_all_config(db), t))

\* C31: the step of handle_error that finds the counter at the ceiling drops
\* the client and enters auth.login exactly when Scrape or Post is enabled in
\* the configuration at that moment; otherwise it zeroes the counter at once
\* and no login is made.  The step in which the login returns zeroes the
\* counter whether or not it brings a client, the cooldown then keeps the
\* client (or its absence) as the login left it, and the loop keeps running
\* throughout.
C31_ResetOutcome ==
  [][/\ (variant = "app" /\ lastRun'.invalidations = 1 /\ lastRun' # lastRun)
          => /\ ~api'
             /\ is_running'
             /\ (pc' = "login")
                  <=> (is_enabled(config[FlagKey["Scrape"]]) \/ is_enabled(config[FlagKey["Post"]]))
             /\ pc' = "login" => (lastRun'.logins = 1 /\ tickLogins' = tickLogins + 1)
             /\ pc' # "login"
                  => /\ pc' = "cooldown" /\ consecutive_errors' = 0
                     /\ lastRun'.logins = 0 /\ tickLogins' = tickLogins
     /\ pc = "login"
          => /\ ~api /\ consecutive_errors' = 0 /\ pc' = "cooldown"
             /\ is_running' /\ lastRun'.logins = 1
     /\ pc = "cooldown"
          => /\ api' = api /\ consecutive_errors = 0 /\ consecutive_errors' = 0
             /\ is_running' /\ pc' \in InTick
             /\ api => lastRun.logins = 1
    ]_vars

\* C31 witness: the login made by the reset returned no client, and the tick
\* has gone on to its end with the counter at 0, no client and the loop running.
C31_ReacquisitionFailed ==
  /\ variant = "app" /\ pc = "sleep" /\ is_running
  /\ lastRun.invalidations = 1 /\ lastRun.logins = 1
  /\ ~api /\ consecutive_errors = 0

\* C32: a task's due time changes only in the step in which that task's own
\* wrapper returns from its body, and then to a later value, not before the
\* clock of that moment; every other step leaves all four due times alone.
C32_DueTimeNeverDecreases ==
  [][\A t \in Tasks :
       next_run'[t] # next_run[t]
         => /\ pc = Body[t]
            /\ next_run'[t] > next_run[t]
            /\ next_run'[t] >= now'
            /\ \A u \in Tasks \ {t} : next_run'[u] = next_run[u]
    ]_vars

\* C32 witness: Youtube, first due three minutes after construction, has run
\* and is due at a later time.
C32_YoutubeMovedLater ==
  /\ variant = "app" /\ Returned("Youtube", "ok")
  /\ lastRun.dueBefore = Minutes(Stagger["Youtube"])
  /\ next_run["Youtube"] > lastRun.dueBefore

\* C33 as stated: once a KeyboardInterrupt has been raised after the loop of
\* ReelsAutoPilot was entered, is_running is false and run() goes on to return
\* normally; the interrupt never leaves run() as an exception.
C33_SignalNeverEscapes ==
  (variant = "app" /\ signalled)
    => /\ ~is_running
       /\ pc \in {"loop", "stopped"}
       /\ Exited => ExitCode = 0

\* C34: a call of poster.main in which the upload did not succeed, or which
\* found no unposted reel, returns normally to run_poster of ReelsAutoPilot,
\* which then zeroes the failure counter and sets the next due time one
\* interval (plus jitter) after the return, exactly as after an upload; the
\* wrapper takes the failure path, which leaves the due time alone and counts
\* the failure, only when an exception left poster.main.
C34_FailedUploadCountsAsSuccess ==
  (variant = "app" /\ lastRun.task = "Post" /\ lastRun.outcome \in {"ok", "fail"})
    => /\ lastRun.result \in {"posted", "upload_failed", "no_reel"}
            => /\ lastRun.outcome = "ok"
               /\ lastRun.invalidations = 0
               /\ next_run["Post"]
                    = lastRun.finish + Minutes(interval["Post"]) + lastRun.jitter
               /\ Returned("Post", "ok") => consecutive_errors = 0
       /\ lastRun.result = "raised"
            => /\ lastRun.outcome = "fail"
               /\ next_run["Post"] = lastRun.dueBefore
               /\ (lastRun.errBefore + 1 < max_consecutive_errors /\ Returned("Post", "fail"))
                    => consecutive_errors = lastRun.errBefore + 1

\* C34 witness: poster.main returned after an upload that did not succeed, with
\* failures counted before the run, and the counter is 0.
C34_UploadFailedCounterZero ==
  /\ variant = "app" /\ Returned("Post", "ok") /\ lastRun.result = "upload_failed"
  /\ lastRun.errBefore > 0 /\ consecutive_errors = 0

\* The latest call of a body was ReelsPoster.run / download_and_save_reel.
PostJustRan == calls > 0 /\ lastPost.call = calls

SaveJustRan == calls > 0 /\ lastSave.call = calls

RowsWith(code) == {i \in 1..Len(reel_table) : reel_table[i].code = code}

\* C35: over any sequence of Post runs no reel is uploaded more than once:
\* once clip_upload has returned a media for a reel, its row has is_posted set
\* and get_next_reel does not return the reel again.
C35_UploadedAtMostOnce ==
  /\ \A c \in Codes : uploads[c] <= 1
  /\ (PostJustRan /\ lastPost.result = "posted")
       => /\ \A i \in RowsWith(lastPost.selected) : reel_table[i].is_posted
          /\ get_next_reel(reel_table, TRUE) # lastPost.selected

\* C36: a reel whose posting failed because its file is missing or too short
\* does not keep the reels stored after it from being selected: a Post run
\* does not select a reel that an earlier run has already marked as failed
\* while an unposted reel with a valid file, stored after it, is waiting.
C36_FailedReelDoesNotBlock ==
  (PostJustRan /\ lastPost.selected # NoCode /\ ~lastPost.valid /\ lastPost.failedBefore)
    => lastPost.waiting = {}

\* C37: the reels table never holds two rows with one code; a call of
\* download_and_save_reel for a code that has a row returns False without
\* downloading and without inserting; a call that returns True has added
\* exactly one row, with that code and is_posted false; a call that returns
\* False has added none.
C37_OneRowPerCode ==
  /\ \A c \in Codes : Cardinality(RowsWith(c)) <= 1
  /\ SaveJustRan
       => /\ lastSave.copiesBefore > 0
               => /\ ~lastSave.downloaded
                  /\ ~lastSave.returned
          /\ lastSave.returned
               => /\ lastSave.copiesBefore = 0
                  /\ lastSave.downloaded
                  /\ Len(reel_table) = lastSave.rowsBefore + 1
                  /\ reel_table[Len(reel_table)]
                       = [code |-> lastSave.code, is_posted |-> FALSE]
          /\ ~lastSave.returned => Len(reel_table) = lastSave.rowsBefore

\* C37 witness: the feed offered a code again that already has a row, after
\* another reel was stored, and the call returned False.
C37_KnownCodeOfferedAgain ==
  /\ SaveJustRan /\ lastSave.copiesBefore = 1 /\ ~lastSave.returned
  /\ Len(reel_table) = MaxReels

PassSucceeded(p) == p.session = "ok" \/ p.credentials = "ok"

\* The parts of C38 that do not concern the removal of the session file:
\* login() makes at most MAX_LOGIN_ATTEMPTS passes, returns the client in the
\* first pass that succeeds and None after MAX_LOGIN_ATTEMPTS passes that
\* failed, and tries the saved session only in the first pass.
LoginBoundedFirstSuccess ==
  /\ Len(login_log) <= MAX_LOGIN_ATTEMPTS
  /\ \A i \in 1..Len(login_log) :
       /\ login_log[i].index = i - 1
       /\ login_log[i].session # "skipped" => i = 1 /\ login_log[i].fileBefore
       /\ PassSucceeded(login_log[i]) => i = Len(login_log) /\ login_result = "client"
  /\ login_pc = "loop" => login_result = "none" /\ Len(login_log) = attempt
  /\ login_pc = "returned"
       => /\ login_log # <<>>
          /\ login_result \in {"client", "None"}
          /\ login_result = "client" <=> PassSucceeded(login_log[Len(login_log)])
          /\ login_result = "None" => Len(login_log) = MAX_LOGIN_ATTEMPTS

\* C38 as stated: with the above, in a pass in which the session login
\* failed the file is removed and the credential login is tried in that pass.
C38_CredentialsInSamePass ==
  /\ LoginBoundedFirstSuccess
  /\ \A i \in 1..Len(login_log) :
       login_log[i].session = "failed"
         => login_log[i].removal = "done" /\ login_log[i].credentials # "skipped"

\* C38: login() makes at most MAX_LOGIN_ATTEMPTS passes, returns the client
\* in the first pass that succeeds and None after MAX_LOGIN_ATTEMPTS failed
\* passes; the saved session is tried only in the first pass; after a failed
\* session login os.remove is called on the file, and the credential login is
\* tried in that same pass when the removal succeeded; when the removal
\* raises, the pass ends there without a credential login and the later
\* passes use the credentials only.
C38_CredentialsAfterRemoval ==
  /\ LoginBoundedFirstSuccess
  /\ \A i \in 1..Len(login_log) :
       /\ login_log[i].session = "failed"
            => /\ login_log[i].removal # "skipped"
               /\ login_log[i].removal = "done" <=> login_log[i].credentials # "skipped"
       /\ (i > 1 /\ ~login_log[i].raised) => login_log[i].credentials # "skipped"

\* C38 witness: the session login of the first pass failed, the file was
\* removed and the credentials failed too, the second pass failed, and the
\* third pass logged in with the credentials.
C38_ThirdPassLogsIn ==
  /\ login_pc = "returned" /\ login_result = "client" /\ Len(login_log) = MAX_LOGIN_ATTEMPTS
  /\ login_log[1].session = "failed" /\ login_log[1].removal = "done"
  /\ login_log[1].credentials = "failed"

====
